---- MODULE Spec2Model ----
(***************************************************************************)
(* A model of walkngo: the AST walker (walker/walker.go) driving the C     *)
(* back end (printer/cprinter.go).                                         *)
(*                                                                         *)
(* Text is a sequence of tokens.  A token is either a run of white space   *)
(* (" ", "\n", the indentation unit "  ") or a run of non-space            *)
(* characters, so that trimming, joining and splitting on tokens agree     *)
(* with the same operations on characters.                                 *)
(***************************************************************************)
EXTENDS Integers, Sequences, FiniteSets

(***************************************************************************)
(* Bounds of the model.                                                    *)
(***************************************************************************)
MaxDepth == 2        \* nesting depth of compound statements in an input tree
MaxCtx == 2          \* context-stack depth explored through the printer API
MaxLevel == 1         \* blocks the client of the printer API leaves open
MaxCount == 2        \* constants, deferred calls and named results counted by live contexts

(***************************************************************************)
(* strings / strconv / fmt helpers                                         *)
(***************************************************************************)
SpaceTokens == {" ", "\n", "\t", "  "}

RECURSIVE TrimLeftSet(_, _)
TrimLeftSet(s, cut) ==
    IF s # <<>> /\ Head(s) \in cut THEN TrimLeftSet(Tail(s), cut) ELSE s

RECURSIVE TrimRightSet(_, _)
TrimRightSet(s, cut) ==
    IF s # <<>> /\ s[Len(s)] \in cut
    THEN TrimRightSet(SubSeq(s, 1, Len(s) - 1), cut)
    ELSE s

TrimSpace(s) == TrimRightSet(TrimLeftSet(s, SpaceTokens), SpaceTokens)

RECURSIVE Join(_, _)
Join(values, sep) ==
    IF values = <<>> THEN <<>>
    ELSE IF Len(values) = 1 THEN values[1]
    ELSE values[1] \o sep \o Join(Tail(values), sep)

RECURSIVE Repeat(_, _)
Repeat(tok, n) == IF n <= 0 THEN <<>> ELSE <<tok>> \o Repeat(tok, n - 1)

Contains(s, tok) == \E i \in 1..Len(s) : s[i] = tok

Index(s, tok) ==
    IF Contains(s, tok) THEN CHOOSE i \in 1..Len(s) :
                                 s[i] = tok /\ \A j \in 1..(i - 1) : s[j] # tok
    ELSE 0

Digit == <<"0", "1", "2", "3", "4", "5", "6", "7", "8", "9">>

RECURSIVE Itoa(_)
Itoa(n) == IF n < 10 THEN Digit[n + 1] ELSE Itoa(n \div 10) \o Digit[(n % 10) + 1]

\* strings.SplitN(s, " ", 2)
SplitN2(s) ==
    LET i == Index(s, " ")
    IN  IF i = 0 THEN <<s>> ELSE <<SubSeq(s, 1, i - 1), SubSeq(s, i + 1, Len(s))>>

(***************************************************************************)
(* Printer constants (declared beside the Printer interface).              *)
(***************************************************************************)
NONE == <<>>
NL == <<"\n">>
SEMI == <<";", "\n">>
COLON == <<":", "\n">>
COMMA == <<",", " ">>
UP == 1
DOWN == -1

NIL == <<"nil">>
NULL == <<"nullptr">>
IOTA == <<"iota">>

(***************************************************************************)
(* CContext and the CPrinter.  A printer value is the record               *)
(*   [level, sameline, ctx, w, panic]                                      *)
(* where ctx is the linked list of contexts (head = p.ctx, <<>> = nil),    *)
(* w is the text written to p.w by the operation, and panic records a      *)
(* run-time panic (nil dereference, index out of range).                   *)
(***************************************************************************)
NewCContext ==
    [iota |-> 0, deferred |-> 0, receiver |-> <<>>,
     ret_definitions |-> <<>>, ret_values |-> <<>>]

Panic(p) == [p EXCEPT !.panic = TRUE]

Write(p, text) == IF p.panic THEN p ELSE [p EXCEPT !.w = @ \o text]

\* (ctx *CContext) Selector
Selector(ctx, s) ==
    IF ctx # <<>> /\ ctx[1].receiver = s THEN <<"this->">> ELSE s \o <<".">>

Reset(p) == [p EXCEPT !.level = 0, !.sameline = FALSE, !.ctx = <<>>]

PushContextBuggy(p) ==
    IF p.ctx = <<>> THEN [p EXCEPT !.ctx = <<NewCContext>>]
    ELSE [p EXCEPT !.ctx = <<[NewCContext EXCEPT !.deferred = p.ctx[1].deferred]>> \o @]

PushContext(p) == [p EXCEPT !.ctx = <<NewCContext>> \o @]

PopContext(p) == IF p.ctx = <<>> THEN Panic(p) ELSE [p EXCEPT !.ctx = Tail(@)]

UpdateLevel(p, delta) == [p EXCEPT !.level = @ + delta]

SameLine(p) == [p EXCEPT !.sameline = TRUE]

Chop(line) == TrimRightSet(line, {",", " "})

\* indent returns the printer (sameline cleared) and the indentation text;
\* strings.Repeat panics on a negative count
indent(p) ==
    IF p.sameline THEN [p |-> [p EXCEPT !.sameline = FALSE], s |-> <<>>]
    ELSE IF p.level < 0 THEN [p |-> Panic(p), s |-> <<>>]
    ELSE [p |-> p, s |-> Repeat("  ", p.level)]

\* (p *CPrinter) Print
PrintV(p, values) == Write(p, Join(values, <<" ">>))

PrintLevel(p, term, values) ==
    LET i == indent(p) IN Write(i.p, i.s \o Join(values, <<" ">>) \o term)

PrintLevelIn(p, term, values) ==
    LET q == [p EXCEPT !.level = @ - 1]
        i == indent(q)
        r == Write(i.p, i.s \o Join(values, <<" ">>) \o term)
    IN  IF r.panic THEN r ELSE [r EXCEPT !.level = @ + 1]

\* BlockType values
CONST == "CONST"
VAR == "VAR"
CODE == "CODE"

PrintBlockStart(p, b) ==
    LET open == IF b \in {CONST, VAR} THEN <<"(">> ELSE <<"{">>
        q == UpdateLevel(PrintLevel(p, NL, <<open>>), UP)
    IN  IF b # CODE THEN q
        ELSE IF q.ctx = <<>> THEN Panic(q)
        ELSE IF Len(q.ctx[1].ret_definitions) > 0
             THEN [PrintLevel(q, NL, <<q.ctx[1].ret_definitions>>)
                     EXCEPT !.ctx[1].ret_definitions = <<>>]
             ELSE q

PrintBlockEnd(p, b) ==
    LET close == IF b \in {CONST, VAR} THEN <<")">> ELSE <<"}">>
    IN  PrintLevel(UpdateLevel(p, DOWN), NONE, <<close>>)

PrintPackage(p, name) ==
    PrintLevel(PrintLevel(p, NL, <<<<"//package">>, name>>),
               NL, <<<<"#include", " ", "<go.h>">>>>)

PrintImport(p, name, path) ==
    LET q == PrintLevel(p, NL, <<<<"//import">>, name, path>>)
    IN  IF path = <<"\"fmt\"">> THEN PrintLevel(q, NL, <<<<"#include", " ", "<fmt.h>">>>>)
        ELSE IF path = <<"\"sync\"">> THEN PrintLevel(q, NL, <<<<"#include", " ", "<sync.h>">>>>)
        ELSE IF path = <<"\"errors\"">> THEN PrintLevel(q, NL, <<<<"#include", " ", "<errors.h>">>>>)
        ELSE IF path = <<"\"time\"">> THEN PrintLevel(q, NL, <<<<"#include", " ", "<go_time.h>">>>>)
        ELSE q

\* typedef never holds a "%" verb in the modelled inputs that reach the
\* Sprintf branch with a verb to fill; the branch is kept for the dispatch
PrintType(p, name, typedef) ==
    IF Contains(typedef, "%s")
    THEN PrintLevel(p, SEMI, <<<<"typedef">>,
             SubSeq(typedef, 1, Index(typedef, "%s") - 1) \o <<"(">> \o name \o <<")">>
             \o SubSeq(typedef, Index(typedef, "%s") + 1, Len(typedef))>>)
    ELSE PrintLevel(p, SEMI, <<<<"typedef">>, typedef, name>>)

\* FormatIdent returns the printer and the rendered identifier
FormatIdent(p, id) ==
    IF id = NIL THEN [p |-> p, ret |-> NULL]
    ELSE IF id = IOTA
         THEN IF p.ctx = <<>> THEN [p |-> Panic(p), ret |-> <<>>]
              ELSE [p |-> [p EXCEPT !.ctx[1].iota = @ + 1],
                    ret |-> <<Itoa(p.ctx[1].iota)>>]
    ELSE IF id = <<"string">> THEN [p |-> p, ret |-> <<"std::string">>]
    ELSE [p |-> p, ret |-> id]

NumberTokens == {Itoa(n) : n \in 0..20}

\* GuessType returns <<type, value>>; only the literal classes the modelled
\* inputs can produce are told apart by their first token
GuessType(value) ==
    IF Len(value) = 0 THEN <<<<"auto">>, value>>
    ELSE IF Head(value) \in {"'c'"} THEN <<<<"char">>, value>>
    ELSE IF Head(value) \in {"\"s\""} THEN <<<<"string">>, value>>
    ELSE IF Head(value) \in NumberTokens \cup {"."}
         THEN IF Contains(value, ".") \/ Contains(value, "E")
              THEN <<<<"float64">>, value>>
              ELSE <<<<"int">>, value>>
    ELSE IF value \in {<<"true">>, <<"false">>} THEN <<<<"bool">>, value>>
    ELSE IF value \in {NIL, NULL} THEN <<<<"void*">>, value>>
    ELSE <<<<"auto">>, value>>

IsMultiValue(expr) == Contains(expr, ",")

PrintValue(p, vtype, typedef, names, values, ntuple, vtuple) ==
    LET vt == IF vtype = <<"var">> THEN <<>> ELSE vtype
        fi == IF vtype = <<"const">> /\ Len(values) = 0
              THEN FormatIdent(p, IOTA)
              ELSE [p |-> p, ret |-> values]
        v1 == fi.ret
        g  == GuessType(v1)
        td == IF Len(typedef) = 0 THEN g[1]
              ELSE IF Contains(typedef, "[")
                   THEN SubSeq(typedef, 1, Index(typedef, "[") - 1)
                   ELSE typedef
        v2 == IF Len(typedef) = 0 THEN g[2] ELSE v1
        n1 == IF Len(typedef) # 0 /\ Contains(typedef, "[")
              THEN names \o SubSeq(typedef, Index(typedef, "["), Len(typedef))
              ELSE names
        n2 == IF ntuple /\ Len(v2) > 0 THEN <<"tie(">> \o n1 \o <<")">> ELSE n1
        q  == PrintLevel(fi.p, NONE, <<vt, td, n2>>)
        v3 == IF vtuple THEN <<"make_tuple(">> \o v2 \o <<")">> ELSE v2
        r  == IF Len(v2) > 0 THEN PrintV(q, <<<<" ", "=">>, v3>>) ELSE q
    IN  IF fi.p.panic THEN fi.p ELSE PrintV(r, <<<<";", "\n">>>>)

\* PrintStmt without the increment of p.ctx.deferred
PrintStmtNoIncrement(p, stmt, expr) ==
    IF stmt = <<"go">>
    THEN PrintLevel(p, SEMI, <<<<"Goroutine([](){", " ">> \o expr \o <<";", " ", "})">>>>)
    ELSE IF stmt = <<"defer">>
         THEN IF p.ctx = <<>> THEN Panic(p)
              ELSE PrintLevel(p, SEMI,
                       <<<<"Deferred", " ", "defer" \o Itoa(p.ctx[1].deferred),
                           "([](){", " ">> \o expr \o <<";", " ", "})">>>>)
    ELSE IF Len(stmt) > 0 THEN PrintLevel(p, SEMI, <<stmt, expr>>)
    ELSE PrintLevel(p, SEMI, <<expr>>)

PrintStmt(p, stmt, expr) ==
    IF stmt = <<"go">>
    THEN PrintLevel(p, SEMI, <<<<"Goroutine([](){", " ">> \o expr \o <<";", " ", "})">>>>)
    ELSE IF stmt = <<"defer">>
         THEN IF p.ctx = <<>> THEN Panic(p)
              ELSE [PrintLevel(p, SEMI,
                       <<<<"Deferred", " ", "defer" \o Itoa(p.ctx[1].deferred),
                           "([](){", " ">> \o expr \o <<";", " ", "})">>>>)
                      EXCEPT !.ctx[1].deferred = @ + 1]
    ELSE IF Len(stmt) > 0 THEN PrintLevel(p, SEMI, <<stmt, expr>>)
    ELSE PrintLevel(p, SEMI, <<expr>>)

PrintReturn(p, expr, tuple) ==
    IF p.ctx = <<>> /\ Len(expr) = 0 THEN Panic(p)
    ELSE LET e1 == IF Len(expr) = 0 /\ Len(p.ctx[1].ret_values) > 0
                   THEN Chop(p.ctx[1].ret_values) ELSE expr
             e2 == IF tuple THEN <<"make_tuple(">> \o e1 \o <<")">> ELSE e1
         IN  PrintStmt(p, <<"return">>, e2)

PrintFunc(p, receiver, name, params, results) ==
    IF Len(receiver) = 0 /\ Len(params) = 0 /\ Len(results) = 0 /\ name = <<"main">>
    THEN Write(p, <<"int", " ">> \o name \o <<"(">>
                  \o <<"int", " ", "argc", ",", " ", "char", " ", "**argv">> \o <<")", " ">>)
    ELSE LET res == IF Len(results) = 0 THEN <<"void">>
                    ELSE IF IsMultiValue(results)
                         THEN <<"tuple<">> \o results \o <<">">>
                         ELSE results
             parts == SplitN2(receiver)
         IN  IF Len(receiver) > 0
             THEN IF Len(parts) < 2 \/ p.ctx = <<>> THEN Panic(p)
                  ELSE Write([p EXCEPT !.ctx[1].receiver = parts[2]],
                             res \o <<" ">>
                             \o <<"/*", " ">> \o parts[2] \o <<" ", "*/", " ">>
                             \o TrimRightSet(parts[1], {"*"}) \o <<"::">>
                             \o name \o <<"(">> \o params \o <<")", " ">>)
             ELSE Write(p, res \o <<" ">> \o name \o <<"(">> \o params \o <<")", " ">>)

PrintFor(p, init0, cond0, post0) ==
    LET init == TrimRightSet(init0, {";", "\n"})
        post == TrimRightSet(post0, {";", "\n"})
        onlycond == Len(init) = 0 /\ Len(post) = 0
        cond == IF Len(cond0) = 0 THEN <<"true">> ELSE cond0
    IN  IF onlycond
        THEN PrintV(PrintLevel(p, NONE, <<<<"while", " ", "(">>, cond>>), <<<<")", " ">>>>)
        ELSE LET a == PrintLevel(p, NONE, <<<<"for", " ", "(">>>>)
                 b == IF Len(init) > 0 THEN PrintV(a, <<init>>) ELSE a
                 c == PrintV(b, <<<<";", " ">> \o cond \o <<";">>>>)
                 d == IF Len(post) > 0 THEN PrintV(c, <<<<" ">> \o post>>) ELSE c
             IN  PrintV(d, <<<<")", " ">>>>)

PrintRange(p, key, value, expr) ==
    LET k == IF key = <<"_">> THEN value ELSE key
        v == IF key = <<"_">> THEN <<>> ELSE value
        a == PrintLevel(p, NONE, <<<<"for", " ", "(auto">>, k>>)
        b == IF Len(v) > 0 THEN PrintV(a, <<<<",">>, v>>) ELSE a
    IN  PrintV(b, <<<<":">>, expr, <<")", " ">>>>)

PrintSwitch(p, init, expr) ==
    LET a == IF Len(init) > 0 THEN PrintLevel(p, SEMI, <<init>>) ELSE p
    IN  PrintLevel(a, NONE, <<<<"switch", " ", "(">>, expr, <<")">>>>)

PrintIf(p, init, cond) ==
    LET a == IF Len(init) > 0
             THEN PrintLevel(p, NONE, <<init \o <<" ", "if", " ">>>>)
             ELSE PrintLevel(p, NONE, <<<<"if", " ">>>>)
    IN  PrintV(a, <<<<"(">>, cond, <<")", " ">>>>)

PrintElse(p) == PrintV(p, <<<<" ", "else", " ">>>>)

PrintEmpty(p) == PrintLevel(p, SEMI, <<<<>>>>)

FormatSelectorAllContexts(p, pname, sel, isObject) ==
    IF isObject
    THEN IF \E i \in 1..Len(p.ctx) : p.ctx[i].receiver = pname
         THEN <<"this->">> \o sel
         ELSE pname \o <<".">> \o sel
    ELSE pname \o <<"::">> \o sel

FormatSelector(p, pname, sel, isObject) ==
    IF isObject THEN Selector(p.ctx, pname) \o sel
    ELSE pname \o <<"::">> \o sel

\* fmt.Sprintf(format, arg) for a format holding one "%s" verb
Sprintf1(format, arg) ==
    LET i == Index(format, "%s")
    IN  IF i = 0 THEN format \o <<"%!(EXTRA string=">> \o arg \o <<")">>
        ELSE SubSeq(format, 1, i - 1) \o arg \o SubSeq(format, i + 1, Len(format))

LastIndex(s, tok) ==
    IF Contains(s, tok) THEN CHOOSE i \in 1..Len(s) :
                                 s[i] = tok /\ \A j \in (i + 1)..Len(s) : s[j] # tok
    ELSE 0

getIdentifier(s) ==
    IF \E i \in 1..Len(s) : s[i] \in {"<", "["}
    THEN SubSeq(s, 1, (CHOOSE i \in 1..Len(s) :
                          s[i] \in {"<", "["} /\ \A j \in 1..(i - 1) : s[j] \notin {"<", "["}) - 1)
    ELSE s

\* FieldType values
METHOD == "METHOD"
RESULT == "RESULT"
PARAM == "PARAM"
FIELD == "FIELD"

\* FormatPair returns the printer and the rendered pair
FormatPair(p, name0, value0, t) ==
    LET arrayed == Len(value0) > 0 /\ value0[Len(value0)] = "]" /\ LastIndex(value0, "[") > 0
        arr == IF arrayed THEN SubSeq(value0, LastIndex(value0, "["), Len(value0)) ELSE <<>>
        cut == IF arrayed THEN SubSeq(value0, 1, LastIndex(value0, "[") - 1) ELSE value0
        name == IF arrayed /\ Len(name0) > 0 THEN name0 \o arr ELSE name0
        value1 == IF arrayed /\ Len(name0) = 0 THEN cut \o arr ELSE cut
        i == LastIndex(value1, "*")
        value == IF Len(value1) > 0 /\ Head(value1) = "*"
                 THEN SubSeq(value1, i + 1, Len(value1)) \o SubSeq(value1, 1, i)
                 ELSE value1
        q == IF t = RESULT /\ Len(name) > 0 /\ p.ctx # <<>>
             THEN [p EXCEPT !.ctx[1].ret_definitions = @ \o value \o <<" ">> \o name \o <<";">>,
                            !.ctx[1].ret_values = @ \o name \o <<",", " ">>]
             ELSE p
        ret == IF t = METHOD
               THEN IF Len(name) = 0 THEN <<"//", " ", "extends", " ">> \o value
                    ELSE <<"virtual", " ">> \o Sprintf1(value, name)
               ELSE IF t = RESULT /\ Len(name) > 0
                    THEN value \o <<" ", "/*", " ">> \o name \o <<" ", "*/">>
               ELSE IF t = PARAM /\ Contains(value, "%s") THEN Sprintf1(value, name)
               ELSE IF t = FIELD /\ Len(name) = 0 THEN getIdentifier(value) \o <<" ">> \o value
               ELSE IF Len(name) > 0 /\ Len(value) > 0 THEN value \o <<" ">> \o name
               ELSE value \o name
        ind == indent(q)
    IN  IF t \in {METHOD, FIELD}
        THEN [p |-> ind.p, ret |-> ind.s \o ret \o SEMI]
        ELSE [p |-> q, ret |-> ret \o COMMA]

(***************************************************************************)
(* go/ast nodes.  A node is a record with a kind; Nil is the nil interface *)
(* value.  A *ast.BlockStmt field may hold a nil pointer: stored in an     *)
(* ast.Node interface it is a non-nil interface whose pointer is nil       *)
(* (isnil = TRUE).                                                         *)
(***************************************************************************)
Nil == [kind |-> "nil"]
IsNil(n) == n.kind = "nil"

Ident(name) == [kind |-> "Ident", Name |-> name]
BasicLit(v) == [kind |-> "BasicLit", Value |-> v]
StarExpr(x) == [kind |-> "StarExpr", X |-> x]
BadExpr == [kind |-> "BadExpr"]
Field(names, type) == [Names |-> names, Type |-> type]
FuncType(params, results) == [kind |-> "FuncType", Params |-> params, Results |-> results]
CallExpr(fun, args) == [kind |-> "CallExpr", Fun |-> fun, Args |-> args, Ellipsis |-> 0]
BinaryExpr(x, op, y) == [kind |-> "BinaryExpr", X |-> x, Op |-> op, Y |-> y]
FieldList(list) == [kind |-> "FieldList", List |-> list]
FuncLit(body) == [kind |-> "FuncLit", Type |-> FuncType(FieldList(<<>>), Nil), Body |-> body]

BlockStmt(list) == [kind |-> "BlockStmt", isnil |-> FALSE, List |-> list]
NilBlockStmt == [kind |-> "BlockStmt", isnil |-> TRUE]
ExprStmt(x) == [kind |-> "ExprStmt", X |-> x]
AssignStmt(lhs, tok, rhs) == [kind |-> "AssignStmt", Lhs |-> lhs, Tok |-> tok, Rhs |-> rhs]
IncDecStmt(x, tok) == [kind |-> "IncDecStmt", X |-> x, Tok |-> tok]
DeferStmt(call) == [kind |-> "DeferStmt", Call |-> call]
GoStmt(call) == [kind |-> "GoStmt", Call |-> call]
ReturnStmt(results) == [kind |-> "ReturnStmt", Results |-> results]
BranchStmt(tok, label) == [kind |-> "BranchStmt", Tok |-> tok, Label |-> label]
EmptyStmt == [kind |-> "EmptyStmt"]
LabeledStmt(stmt) == [kind |-> "LabeledStmt", Stmt |-> stmt]
DeclStmt(decl) == [kind |-> "DeclStmt", Decl |-> decl]
IfStmt(init, cond, body, else) ==
    [kind |-> "IfStmt", Init |-> init, Cond |-> cond, Body |-> body, Else |-> else]
ForStmt(init, cond, post, body) ==
    [kind |-> "ForStmt", Init |-> init, Cond |-> cond, Post |-> post, Body |-> body]
SwitchStmt(init, tag, body) ==
    [kind |-> "SwitchStmt", Init |-> init, Tag |-> tag, Body |-> body]
TypeSwitchStmt(init, assign, body) ==
    [kind |-> "TypeSwitchStmt", Init |-> init, Assign |-> assign, Body |-> body]
CaseClause(list, body) == [kind |-> "CaseClause", List |-> list, Body |-> body]
RangeStmt(key, value, x, body) ==
    [kind |-> "RangeStmt", Key |-> key, Value |-> value, X |-> x, Body |-> body]

ImportSpec(name, path) == [kind |-> "ImportSpec", Name |-> name, Path |-> path]
TypeSpec(name, type) == [kind |-> "TypeSpec", Name |-> name, Type |-> type]
ValueSpec(names, type, values) ==
    [kind |-> "ValueSpec", Names |-> names, Type |-> type, Values |-> values]
GenDecl(tok, specs) == [kind |-> "GenDecl", Tok |-> tok, Specs |-> specs]
FuncDecl(recv, name, params, results, body) ==
    [kind |-> "FuncDecl", Recv |-> recv, Name |-> name,
     Type |-> FuncType(params, results), Body |-> body]
File(name, decls) == [kind |-> "File", Name |-> name, Decls |-> decls]

(***************************************************************************)
(* The walker's pure helpers.                                              *)
(***************************************************************************)
identString(i) == IF IsNil(i) THEN <<>> ELSE <<i.Name>>

parseNames(v) == Join([i \in 1..Len(v) |-> <<v[i].Name>>], <<",", " ">>)

wrapIf(val) == IF Len(val) > 0 THEN <<"(">> \o val \o <<")">> ELSE <<>>

ifTrue(val, cond) == IF cond THEN val ELSE <<>>

\* fmt.Sprintf("%#v", n): the structural dump of a node
Dump(n) == <<"&ast." \o n.kind \o "{...}">>

\* The expression kinds whose case in parseExpr calls back into the walker
\* (BufferVisit, or parseExpr on a child that may do so) are run as frames;
\* the others change no state and are evaluated in one step.
CompositeKinds == {"CallExpr", "BinaryExpr", "FuncLit"}

RECURSIVE parseExprLeaf(_)
parseFieldList(l, sep) ==
    IF IsNil(l) THEN <<>>
    ELSE Join([i \in 1..Len(l.List) |->
                 IF Len(parseNames(l.List[i].Names)) > 0
                 THEN parseNames(l.List[i].Names) \o <<" ">> \o parseExprLeaf(l.List[i].Type)
                 ELSE parseExprLeaf(l.List[i].Type)],
              sep)

parseExprLeaf(expr) ==
    IF IsNil(expr) THEN <<>>
    ELSE IF expr.kind = "Ident" THEN <<expr.Name>>
    ELSE IF expr.kind = "StarExpr" THEN <<"*">> \o parseExprLeaf(expr.X)
    ELSE IF expr.kind = "FuncType"
         THEN <<"(">> \o parseFieldList(expr.Params, <<",", " ">>) \o <<")", " ">>
              \o wrapIf(parseFieldList(expr.Results, <<",", " ">>))
    ELSE IF expr.kind = "BasicLit" THEN <<expr.Value>>
    ELSE <<"/*", " ", "Expr:", " ">> \o Dump(expr) \o <<" ", "*/">>

(***************************************************************************)
(* The body of each function of the walker as a sequence of instructions.  *)
(* An instruction is a call into the walker (Visit, BufferVisit,           *)
(* parseExpr, parseExprList), a call of a printer operation, or the        *)
(* return of a string.  The strings returned by the calls made so far in   *)
(* a frame are its args, in call order; an operand is args[arg] followed   *)
(* by the literal text lit (arg = 0: the literal alone).                   *)
(***************************************************************************)
A(i) == [arg |-> i, lit |-> <<>>]
L(s) == [arg |-> 0, lit |-> s]
AL(i, s) == [arg |-> i, lit |-> s]

Instr(op, n, l, a, d) == [op |-> op, n |-> n, l |-> l, a |-> a, d |-> d]
IVisit(n) == Instr("Visit", n, <<>>, <<>>, 0)
IBufferVisit(n) == Instr("BufferVisit", n, <<>>, <<>>, 0)
IParseExpr(e) == Instr("parseExpr", e, <<>>, <<>>, 0)
IParseExprList(l) == Instr("parseExprList", Nil, l, <<>>, 0)
IP(op, a) == Instr(op, Nil, <<>>, a, 0)
IUpdateLevel(d) == Instr("UpdateLevel", Nil, <<>>, <<>>, d)
INilDeref == Instr("nilDeref", Nil, <<>>, <<>>, 0)
IReturn(a) == Instr("return", Nil, <<>>, a, 0)

VisitAll(list) == [i \in 1..Len(list) |-> IVisit(list[i])]

VisitFile(n) ==
    <<IP("PrintPackage", <<L(<<n.Name>>)>>)>> \o VisitAll(n.Decls)

VisitImportSpec(n) ==
    <<IP("PrintImport", <<L(identString(n.Name)), L(<<n.Path>>)>>)>>

VisitTypeSpec(n) ==
    <<IParseExpr(n.Type), IP("PrintType", <<L(<<n.Name>>), A(1)>>)>>

\* vtype is the Tok of the enclosing GenDecl (pparent)
VisitValueSpec(n, pparent) ==
    <<IParseExpr(n.Type), IParseExprList(n.Values),
      IP("PrintValue", <<L(<<pparent.Tok>>), L(parseNames(n.Names)), A(1), A(2)>>)>>

VisitGenDecl(n) == VisitAll(n.Specs)

VisitFuncDecl(n) ==
    <<IP("PrintFunc", <<L(parseFieldList(n.Recv, <<",", " ">>)), L(<<n.Name>>),
                        L(parseFieldList(n.Type.Params, <<",", " ">>)),
                        L(parseFieldList(n.Type.Results, <<",", " ">>))>>),
      IVisit(n.Body),
      IP("Print", <<L(<<"\n">>)>>)>>

VisitBlockStmtNoDown(n) ==
    <<IP("PrintLevel", <<L(<<"{", "\n">>)>>), IUpdateLevel(UP)>>
    \o (IF n.isnil THEN <<INilDeref>>
        ELSE VisitAll(n.List) \o <<IP("PrintLevel", <<L(<<"}">>)>>)>>)

\* reading n.List through a nil *ast.BlockStmt panics
VisitBlockStmt(n) ==
    <<IP("PrintLevel", <<L(<<"{", "\n">>)>>), IUpdateLevel(UP)>>
    \o (IF n.isnil THEN <<INilDeref>>
        ELSE VisitAll(n.List)
             \o <<IUpdateLevel(DOWN), IP("PrintLevel", <<L(<<"}">>)>>)>>)

VisitIfStmt(n) ==
    <<IBufferVisit(n.Init), IParseExpr(n.Cond), IP("PrintIf", <<A(1), A(2)>>),
      IVisit(n.Body)>>
    \o (IF ~IsNil(n.Else)
        THEN <<IP("SameLine", <<>>), IP("PrintElse", <<>>), IVisit(n.Else)>>
        ELSE <<>>)
    \o <<IP("Print", <<L(<<"\n">>)>>)>>

VisitForStmt(n) ==
    <<IBufferVisit(n.Init), IParseExpr(n.Cond), IBufferVisit(n.Post),
      IP("PrintFor", <<A(1), A(2), A(3)>>),
      IVisit(n.Body),
      IP("Print", <<L(<<"\n">>)>>)>>

VisitSwitchStmt(n) ==
    <<IBufferVisit(n.Init), IParseExpr(n.Tag), IP("PrintSwitch", <<A(1), A(2)>>),
      IVisit(n.Body),
      IP("Print", <<L(<<"\n">>)>>)>>

VisitTypeSwitchStmt(n) ==
    <<IBufferVisit(n.Init), IBufferVisit(n.Assign), IP("PrintSwitch", <<A(1), A(2)>>),
      IVisit(n.Body),
      IP("Print", <<L(<<"\n">>)>>)>>

VisitCaseClause(n) ==
    (IF Len(n.List) > 0
     THEN <<IParseExprList(n.List),
            IP("PrintLevel", <<L(<<"case">>), A(1), L(<<":">>), L(<<"\n">>)>>)>>
     ELSE <<IP("PrintLevel", <<L(<<"default:">>), L(<<"\n">>)>>)>>)
    \o <<IUpdateLevel(UP)>> \o VisitAll(n.Body) \o <<IUpdateLevel(DOWN)>>

VisitRangeStmt(n) ==
    <<IParseExpr(n.Key), IParseExpr(n.Value), IParseExpr(n.X),
      IP("PrintLevel", <<L(<<"for">>), A(1), L(<<",">>), A(2),
                         L(<<":=", " ", "range">>), A(3)>>),
      IVisit(n.Body),
      IP("Print", <<L(<<"\n">>)>>)>>

VisitBranchStmt(n) ==
    <<IP("PrintStmt", <<L(<<n.Tok>>), L(identString(n.Label))>>)>>

VisitDeferStmt(n) ==
    <<IParseExpr(n.Call), IP("PrintStmt", <<L(<<"defer">>), A(1)>>)>>

VisitGoStmt(n) ==
    <<IParseExpr(n.Call), IP("PrintStmt", <<L(<<"go">>), A(1)>>)>>

VisitReturnStmt(n) ==
    <<IParseExprList(n.Results), IP("PrintStmt", <<L(<<"return">>), A(1)>>)>>

VisitExprStmt(n) ==
    <<IParseExpr(n.X), IP("PrintLevel", <<A(1), L(<<"\n">>)>>)>>

VisitDeclStmt(n) == <<IVisit(n.Decl)>>

VisitAssignStmt(n) ==
    <<IParseExprList(n.Lhs), IParseExprList(n.Rhs),
      IP("PrintLevel", <<A(1), L(<<n.Tok>>), A(2), L(<<"\n">>)>>)>>

VisitIncDecStmt(n) ==
    <<IParseExpr(n.X), IP("PrintLevel", <<AL(1, <<n.Tok>>), L(<<" ">>)>>)>>

VisitEmptyStmt(n) == <<IP("PrintEmpty", <<>>)>>

\* a default case that drops the node without a trace
VisitDefaultSilent(n) == <<>>

\* the default case; its "ret = w" is read only by ast.Walk, which calls
\* Visit for the root alone: the recursive calls drop the result
VisitDefault(n) ==
    <<IP("Print", <<L(<<"/*", " ", "Node:", " ">> \o Dump(n) \o <<" ", "*/", "\n">>)>>)>>

\* the type switch of Visit
VisitCode(n, pparent) ==
    CASE n.kind = "File" -> VisitFile(n)
      [] n.kind = "ImportSpec" -> VisitImportSpec(n)
      [] n.kind = "TypeSpec" -> VisitTypeSpec(n)
      [] n.kind = "ValueSpec" -> VisitValueSpec(n, pparent)
      [] n.kind = "GenDecl" -> VisitGenDecl(n)
      [] n.kind = "FuncDecl" -> VisitFuncDecl(n)
      [] n.kind = "BlockStmt" -> VisitBlockStmt(n)
      [] n.kind = "IfStmt" -> VisitIfStmt(n)
      [] n.kind = "ForStmt" -> VisitForStmt(n)
      [] n.kind = "SwitchStmt" -> VisitSwitchStmt(n)
      [] n.kind = "TypeSwitchStmt" -> VisitTypeSwitchStmt(n)
      [] n.kind = "CaseClause" -> VisitCaseClause(n)
      [] n.kind = "RangeStmt" -> VisitRangeStmt(n)
      [] n.kind = "BranchStmt" -> VisitBranchStmt(n)
      [] n.kind = "DeferStmt" -> VisitDeferStmt(n)
      [] n.kind = "GoStmt" -> VisitGoStmt(n)
      [] n.kind = "ReturnStmt" -> VisitReturnStmt(n)
      [] n.kind = "ExprStmt" -> VisitExprStmt(n)
      [] n.kind = "DeclStmt" -> VisitDeclStmt(n)
      [] n.kind = "AssignStmt" -> VisitAssignStmt(n)
      [] n.kind = "IncDecStmt" -> VisitIncDecStmt(n)
      [] n.kind = "EmptyStmt" -> VisitEmptyStmt(n)
      [] OTHER -> VisitDefault(n)

\* the cases of parseExpr that call back into the walker
parseExprCode(expr) ==
    CASE expr.kind = "BinaryExpr" ->
           <<IParseExpr(expr.X), IParseExpr(expr.Y),
             IReturn(<<A(1), L(<<" ", expr.Op, " ">>), A(2)>>)>>
      [] expr.kind = "CallExpr" ->
           <<IParseExpr(expr.Fun), IParseExprList(expr.Args),
             IReturn(<<A(1), L(<<"(">>), A(2),
                       L(ifTrue(<<"...">>, expr.Ellipsis > 0)), L(<<")">>)>>)>>
      [] expr.kind = "FuncLit" ->
           <<IParseExpr(expr.Type), IBufferVisit(expr.Body),
             IReturn(<<L(<<"func">>), A(1), L(<<" ">>), A(2)>>)>>

parseExprListCode(l) == [i \in 1..Len(l) |-> IParseExpr(l[i])]

(***************************************************************************)
(* The input trees: every file holds either one declaration out of Decls   *)
(* or one of a few two-declaration files.  Statements nest to MaxDepth.    *)
(***************************************************************************)
InitStmt(v) == AssignStmt(<<Ident(v)>>, ":=", <<BasicLit("0")>>)

InnerLeaves == {ExprStmt(Ident("x")), IncDecStmt(Ident("x"), "++")}

Bodies(S) == {<<>>} \cup {<<s>> : s \in S}

Compound(S) ==
    LET B == Bodies(S)
    IN  {ForStmt(Nil, Nil, Nil, BlockStmt(b)) : b \in B}
        \cup {ForStmt(InitStmt("i"), Ident("c"), IncDecStmt(Ident("i"), "++"), BlockStmt(b))
                : b \in B}
        \cup {IfStmt(Nil, Ident("c"), BlockStmt(b), Nil) : b \in B}
        \cup {IfStmt(InitStmt("v"), Ident("c"), BlockStmt(<<>>), BlockStmt(b)) : b \in B}
        \cup {SwitchStmt(Nil, Ident("c"),
                         BlockStmt(<<CaseClause(<<BasicLit("1"), BasicLit("2")>>, b)>>))
                : b \in B}
        \cup {TypeSwitchStmt(InitStmt("s"), ExprStmt(Ident("t")),
                             BlockStmt(<<CaseClause(<<>>, b)>>)) : b \in B}
        \cup {ExprStmt(FuncLit(BlockStmt(b))) : b \in B}
        \cup {BlockStmt(b) : b \in B}

RECURSIVE Stmts(_)
Stmts(d) == IF d = 0 THEN InnerLeaves ELSE InnerLeaves \cup Compound(Stmts(d - 1))

Call == CallExpr(Ident("f"), <<Ident("x")>>)

TopLeaves ==
    {AssignStmt(<<Ident("a"), Ident("b")>>, "=", <<Call, BinaryExpr(Ident("x"), "+", BadExpr)>>),
     DeferStmt(Call),
     GoStmt(Call),
     ReturnStmt(<<Ident("x"), Ident("y")>>),
     BranchStmt("break", Nil),
     EmptyStmt,
     LabeledStmt(ExprStmt(Ident("x"))),
     DeclStmt(GenDecl("var", <<ValueSpec(<<Ident("n")>>, Nil, <<BasicLit("7")>>)>>)),
     RangeStmt(Ident("k"), Ident("v"), Ident("m"), BlockStmt(<<>>))}

NoFields == FieldList(<<>>)

Func(name, list) == FuncDecl(Nil, name, NoFields, Nil, BlockStmt(list))

ConstGroup ==
    GenDecl("const", <<ValueSpec(<<Ident("A")>>, Nil, <<>>),
                       ValueSpec(<<Ident("B")>>, Ident("int"), <<>>)>>)

\* func f() (int, error) { return x, y }
TwoResults ==
    FuncDecl(Nil, "f", NoFields,
             FieldList(<<Field(<<>>, Ident("int")), Field(<<>>, Ident("error"))>>),
             BlockStmt(<<ReturnStmt(<<Ident("x"), Ident("y")>>)>>))

\* func f() (a int, b error) { if v := 0; c { }; return }
NamedResults ==
    FuncDecl(Nil, "f", NoFields,
             FieldList(<<Field(<<Ident("a")>>, Ident("int")),
                         Field(<<Ident("b")>>, Ident("error"))>>),
             BlockStmt(<<IfStmt(InitStmt("v"), Ident("c"), BlockStmt(<<>>), Nil),
                         ReturnStmt(<<>>)>>))

Decls ==
    {Func("f", <<s>>) : s \in Stmts(MaxDepth) \cup TopLeaves}
    \cup {Func("f", <<s, ExprStmt(Ident("y"))>>) : s \in Stmts(MaxDepth) \cup TopLeaves}
    \cup {FuncDecl(Nil, "f", NoFields, Nil, NilBlockStmt),
          FuncDecl(FieldList(<<Field(<<Ident("r")>>, StarExpr(Ident("T")))>>), "m",
                   FieldList(<<Field(<<Ident("a"), Ident("b")>>, Ident("int"))>>),
                   FieldList(<<Field(<<>>, Ident("int")), Field(<<>>, Ident("error"))>>),
                   BlockStmt(<<ReturnStmt(<<>>)>>)),
          FuncDecl(FieldList(<<Field(<<>>, Ident("T"))>>), "m", NoFields, Nil, BlockStmt(<<>>)),
          Func("main", <<>>),
          GenDecl("import", <<ImportSpec(Nil, "\"fmt\""), ImportSpec(Ident("t"), "\"time\"")>>),
          GenDecl("type", <<TypeSpec("T", Ident("int"))>>),
          ConstGroup, TwoResults, NamedResults}

Files ==
    {File("p", <<d>>) : d \in Decls}
    \cup {File("p", <<FuncDecl(Nil, "f", NoFields, Nil, NilBlockStmt), Func("g", <<>>)>>),
          File("p", <<ConstGroup, ConstGroup>>)}

(***************************************************************************)
(* State.                                                                  *)
(***************************************************************************)
VARIABLES
    tree,       \* the *ast.File handed to ast.Walk
    stack,      \* the call stack of the walker, innermost frame last
    parent,     \* w.parent
    buffer,     \* w.buffer, which is also the printer's writer p.w
    flush,      \* w.flush
    out,        \* what fmt.Print has written to standard output
    visited,    \* history: the nodes Visit has been entered with, in order
    level,      \* p.level
    sameline,   \* p.sameline
    ctx,        \* p.ctx, the list of contexts through next
    crashed,    \* a run-time panic has ended the program
    call,       \* the printer operation a client called last
    result,     \* the string that operation returned
    saved,      \* history: p.ctx as it was at each PushContext still open
    ndefer,     \* history: the "defer" statements printed in each open context
    nconst      \* history: the valueless constants printed in each open context
                \*          since its last constant group was opened

wvars == <<tree, stack, parent, flush, out, visited>>
pvars == <<buffer, level, sameline, ctx, crashed>>
hvars == <<call, result, saved, ndefer, nconst>>
vars == <<tree, stack, parent, flush, out, visited, buffer, level, sameline, ctx, crashed,
          call, result, saved, ndefer, nconst>>

\* the instructions of an activation of fn
Code(fn, node, list, pparent) ==
    CASE fn = "WalkFile" -> <<IVisit(node)>>
      [] fn = "Visit" -> VisitCode(node, pparent)
      [] fn = "BufferVisit" -> <<IVisit(node)>>
      [] fn = "parseExpr" -> parseExprCode(node)
      [] fn = "parseExprList" -> parseExprListCode(list)

\* an activation record: the function, its argument, its instructions and
\* the one to run next, the strings its calls returned, and its locals
\* (Visit's pparent, BufferVisit's prev).  level0 and mark are history:
\* p.level and the length of w.buffer when the activation began.
Frame(fn, node, list, pparent, prev, mark) ==
    [fn |-> fn, node |-> node, pc |-> 1, args |-> <<>>,
     pparent |-> pparent, prev |-> prev,
     code |-> Code(fn, node, list, pparent),
     level0 |-> level, mark |-> mark]

NoCall == [op |-> "none", x |-> <<>>, y |-> <<>>, b |-> FALSE]

\* NewWalker, then WalkFile up to its call of ast.Walk.  The printer is
\* handed in by the caller: freshly Reset, or with one context pushed.
Init ==
    /\ tree \in Files
    /\ stack = <<[fn |-> "WalkFile", node |-> tree, pc |-> 1, args |-> <<>>,
                 pparent |-> Nil, prev |-> TRUE,
                 code |-> Code("WalkFile", tree, <<>>, Nil),
                 level0 |-> 0, mark |-> 0]>>
    /\ parent = Nil
    /\ buffer = <<>>
    /\ flush = TRUE
    /\ out = <<>>
    /\ visited = <<>>
    /\ level = 0
    /\ sameline = FALSE
    /\ ctx \in {<<>>, <<NewCContext>>}
    /\ crashed = FALSE
    /\ call = NoCall
    /\ result = <<>>
    /\ saved = <<>>
    /\ ndefer = <<>>
    /\ nconst = <<>>

Top == stack[Len(stack)]

Running == ~crashed /\ stack # <<>>
AtEnd == Top.pc > Len(Top.code)
Cur == Top.code[Top.pc]
At(op) == Running /\ ~AtEnd /\ Cur.op = op

Resolve(o, args) == (IF o.arg = 0 THEN <<>> ELSE args[o.arg]) \o o.lit
Arg(i) == Resolve(Cur.a[i], Top.args)
Rest(from) == [i \in 1..(Len(Cur.a) - from + 1) |-> Arg(i + from - 1)]

\* the stack with the current frame moved past its instruction
Advanced == [stack EXCEPT ![Len(stack)].pc = @ + 1]
Push(fr) == Append(Advanced, fr)
\* the stack after the current frame returned the string s to its caller
Returned(s) ==
    LET below == SubSeq(stack, 1, Len(stack) - 1)
    IN  [below EXCEPT ![Len(below)].args = Append(@, s)]
Popped == SubSeq(stack, 1, Len(stack) - 1)

Done == stack = <<>> /\ ~crashed

(***************************************************************************)
(* The walker.                                                             *)
(***************************************************************************)
\* (w *GoWalker) Flush: what standard output and the buffer hold after it
FlushOut == IF flush /\ Len(buffer) > 0 THEN out \o buffer ELSE out
FlushBuffer == IF flush /\ Len(buffer) > 0 THEN <<>> ELSE buffer

\* Visit(nil): the early return
VisitNil ==
    /\ At("Visit") /\ IsNil(Cur.n)
    /\ stack' = Advanced
    /\ UNCHANGED <<tree, visited, parent, flush, out>>
    /\ UNCHANGED pvars /\ UNCHANGED hvars

\* Visit(node) up to its type switch: pparent := w.parent; w.parent = node
VisitEnter ==
    /\ At("Visit") /\ ~IsNil(Cur.n)
    /\ stack' = Push(Frame("Visit", Cur.n, <<>>, parent, flush, Len(buffer)))
    /\ parent' = Cur.n
    /\ visited' = Append(visited, Cur.n)
    /\ UNCHANGED <<tree, flush, out>>
    /\ UNCHANGED pvars /\ UNCHANGED hvars

\* the tail of Visit: w.Flush(); w.parent = pparent; return
VisitReturn ==
    /\ Running /\ Top.fn = "Visit" /\ AtEnd
    /\ out' = FlushOut
    /\ buffer' = FlushBuffer
    /\ parent' = Top.pparent
    /\ stack' = Popped
    /\ UNCHANGED <<tree, visited, flush, level, sameline, ctx, crashed>>
    /\ UNCHANGED hvars

\* ast.Walk returns after Visit(File) returned nil
WalkFileReturn ==
    /\ Running /\ Top.fn = "WalkFile" /\ AtEnd
    /\ stack' = Popped
    /\ UNCHANGED <<tree, visited, parent, flush, out>>
    /\ UNCHANGED pvars /\ UNCHANGED hvars

\* BufferVisit up to its call of Visit: w.Flush(); prev := w.flush; w.flush = false
BufferVisitEnter ==
    /\ At("BufferVisit")
    /\ out' = FlushOut
    /\ buffer' = FlushBuffer
    /\ flush' = FALSE
    /\ stack' = Push(Frame("BufferVisit", Cur.n, <<>>, Nil, flush, Len(FlushBuffer)))
    /\ UNCHANGED <<tree, visited, parent, level, sameline, ctx, crashed>>
    /\ UNCHANGED hvars

\* the string BufferVisit returns
BufferVisitResult == TrimSpace(buffer)

\* BufferVisit after Visit: w.flush = prev; ret = TrimSpace(buffer);
\* if w.flush { w.buffer.Reset() }
BufferVisitReturn ==
    /\ Running /\ Top.fn = "BufferVisit" /\ AtEnd
    /\ flush' = Top.prev
    /\ buffer' = IF Top.prev THEN <<>> ELSE buffer
    /\ stack' = Returned(BufferVisitResult)
    /\ UNCHANGED <<tree, visited, parent, out, level, sameline, ctx, crashed>>
    /\ UNCHANGED hvars

\* parseExpr on nil and on the kinds that change no state
ParseExprLeaf ==
    /\ At("parseExpr") /\ Cur.n.kind \notin CompositeKinds
    /\ stack' = [Advanced EXCEPT ![Len(stack)].args = Append(@, parseExprLeaf(Cur.n))]
    /\ UNCHANGED <<tree, visited, parent, flush, out>>
    /\ UNCHANGED pvars /\ UNCHANGED hvars

ParseExprEnter ==
    /\ At("parseExpr") /\ Cur.n.kind \in CompositeKinds
    /\ stack' = Push(Frame("parseExpr", Cur.n, <<>>, Nil, flush, Len(buffer)))
    /\ UNCHANGED <<tree, visited, parent, flush, out>>
    /\ UNCHANGED pvars /\ UNCHANGED hvars

\* return fmt.Sprintf(...)
ParseExprReturn ==
    /\ At("return") /\ Top.fn = "parseExpr"
    /\ stack' = Returned(Join(Rest(1), <<>>))
    /\ UNCHANGED <<tree, visited, parent, flush, out>>
    /\ UNCHANGED pvars /\ UNCHANGED hvars

ParseExprListEnter ==
    /\ At("parseExprList")
    /\ stack' = Push(Frame("parseExprList", Nil, Cur.l, Nil, flush, Len(buffer)))
    /\ UNCHANGED <<tree, visited, parent, flush, out>>
    /\ UNCHANGED pvars /\ UNCHANGED hvars

\* return strings.Join(exprs, ", ")
ParseExprListReturn ==
    /\ Running /\ Top.fn = "parseExprList" /\ AtEnd
    /\ stack' = Returned(Join(Top.args, <<",", " ">>))
    /\ UNCHANGED <<tree, visited, parent, flush, out>>
    /\ UNCHANGED pvars /\ UNCHANGED hvars

\* n.List read through a nil *ast.BlockStmt
NilDeref ==
    /\ At("nilDeref")
    /\ crashed' = TRUE
    /\ UNCHANGED wvars
    /\ UNCHANGED <<buffer, level, sameline, ctx>>
    /\ UNCHANGED hvars

(***************************************************************************)
(* The walker's calls of the printer.  The printer writes into w.buffer.   *)
(***************************************************************************)
P0 == [level |-> level, sameline |-> sameline, ctx |-> ctx, w |-> buffer, panic |-> FALSE]

Commit(q) ==
    /\ level' = q.level
    /\ sameline' = q.sameline
    /\ ctx' = q.ctx
    /\ buffer' = q.w
    /\ crashed' = q.panic
    /\ stack' = Advanced
    /\ UNCHANGED <<tree, visited, parent, flush, out>>
    /\ UNCHANGED hvars

DoPrintPackage == At("PrintPackage") /\ Commit(PrintPackage(P0, Arg(1)))
DoPrintImport == At("PrintImport") /\ Commit(PrintImport(P0, Arg(1), Arg(2)))
DoPrintType == At("PrintType") /\ Commit(PrintType(P0, Arg(1), Arg(2)))
\* the walker passes four strings; the two tuple flags of the C printer are
\* not among them and may be either
DoPrintValue ==
    /\ At("PrintValue")
    /\ \E ntuple \in BOOLEAN, vtuple \in BOOLEAN :
         Commit(PrintValue(P0, Arg(1), Arg(2), Arg(3), Arg(4), ntuple, vtuple))
DoPrintFunc == At("PrintFunc") /\ Commit(PrintFunc(P0, Arg(1), Arg(2), Arg(3), Arg(4)))
DoPrint == At("Print") /\ Commit(PrintV(P0, Rest(1)))
DoPrintLevel == At("PrintLevel") /\ Commit(PrintLevel(P0, Arg(1), Rest(2)))
DoUpdateLevel == At("UpdateLevel") /\ Commit(UpdateLevel(P0, Cur.d))
DoPrintIf == At("PrintIf") /\ Commit(PrintIf(P0, Arg(1), Arg(2)))
DoPrintFor == At("PrintFor") /\ Commit(PrintFor(P0, Arg(1), Arg(2), Arg(3)))
DoPrintSwitch == At("PrintSwitch") /\ Commit(PrintSwitch(P0, Arg(1), Arg(2)))
DoSameLine == At("SameLine") /\ Commit(SameLine(P0))
DoPrintElse == At("PrintElse") /\ Commit(PrintElse(P0))
DoPrintStmt == At("PrintStmt") /\ Commit(PrintStmt(P0, Arg(1), Arg(2)))
DoPrintEmpty == At("PrintEmpty") /\ Commit(PrintEmpty(P0))

Next ==
    \/ VisitNil \/ VisitEnter \/ VisitReturn \/ WalkFileReturn
    \/ BufferVisitEnter \/ BufferVisitReturn
    \/ ParseExprLeaf \/ ParseExprEnter \/ ParseExprReturn
    \/ ParseExprListEnter \/ ParseExprListReturn
    \/ NilDeref
    \/ DoPrintPackage \/ DoPrintImport \/ DoPrintType \/ DoPrintValue
    \/ DoPrintFunc \/ DoPrint \/ DoPrintLevel \/ DoUpdateLevel
    \/ DoPrintIf \/ DoPrintFor \/ DoPrintSwitch \/ DoSameLine \/ DoPrintElse
    \/ DoPrintStmt \/ DoPrintEmpty

Spec == Init /\ [][Next]_vars

(***************************************************************************)
(* Definitions used to state the properties of the walker.               *)
(***************************************************************************)
RECURSIVE SumSeq(_)
SumSeq(q) == IF q = <<>> THEN 0 ELSE Head(q) + SumSeq(Tail(q))

\* the nodes directly below a node
Kids(n) ==
    CASE n.kind = "File" -> n.Decls
      [] n.kind = "GenDecl" -> n.Specs
      [] n.kind = "FuncDecl" -> <<n.Body>>
      [] n.kind = "BlockStmt" -> IF n.isnil THEN <<>> ELSE n.List
      [] n.kind = "IfStmt" -> <<n.Init, n.Body, n.Else>>
      [] n.kind = "ForStmt" -> <<n.Init, n.Post, n.Body>>
      [] n.kind = "SwitchStmt" -> <<n.Init, n.Body>>
      [] n.kind = "TypeSwitchStmt" -> <<n.Init, n.Assign, n.Body>>
      [] n.kind = "CaseClause" -> n.Body
      [] n.kind = "RangeStmt" -> <<n.Body>>
      [] n.kind = "DeclStmt" -> <<n.Decl>>
      [] n.kind = "LabeledStmt" -> <<n.Stmt>>
      [] n.kind = "ExprStmt" -> <<n.X>>
      [] n.kind = "FuncLit" -> <<n.Body>>
      [] OTHER -> <<>>

IsForWithInit(n) == n.kind = "ForStmt" /\ ~IsNil(n.Init)
IsFuncLit(n) == n.kind = "FuncLit"
IsNilBody(n) == n.kind = "FuncDecl" /\ n.Body.isnil

\* the kinds of declarations and statements, and those with a case in Visit
NodeKinds ==
    {"File", "ImportSpec", "TypeSpec", "ValueSpec", "GenDecl", "FuncDecl", "BlockStmt",
     "IfStmt", "ForStmt", "SwitchStmt", "TypeSwitchStmt", "CaseClause", "RangeStmt",
     "BranchStmt", "DeferStmt", "GoStmt", "ReturnStmt", "ExprStmt", "DeclStmt",
     "AssignStmt", "IncDecStmt", "EmptyStmt", "LabeledStmt"}
HandledKinds == NodeKinds \ {"LabeledStmt"}

Matches(n, what) ==
    CASE what = "ForWithInit" -> IsForWithInit(n)
      [] what = "FuncLit" -> IsFuncLit(n)
      [] what = "NilBody" -> IsNilBody(n)
      [] what = "Unhandled" -> n.kind \in NodeKinds \ HandledKinds

\* the number of nodes of a tree that match
RECURSIVE Count(_, _), CountAll(_, _)
Count(n, what) ==
    IF IsNil(n) THEN 0
    ELSE (IF Matches(n, what) THEN 1 ELSE 0) + CountAll(Kids(n), what)
CountAll(list, what) ==
    IF list = <<>> THEN 0 ELSE Count(Head(list), what) + CountAll(Tail(list), what)

\* the number of places where pat occurs in s
Occurrences(s, pat) ==
    Cardinality({i \in 1..(Len(s) - Len(pat) + 1) : SubSeq(s, i, i + Len(pat) - 1) = pat})

\* what visiting the loop initializer i := 0 alone writes, trimmed
InitText ==
    TrimSpace(PrintLevel([level |-> 0, sameline |-> FALSE, ctx |-> <<>>,
                          w |-> <<>>, panic |-> FALSE],
                         <<"i">>, <<<<":=">>, <<"0">>, <<"\n">>>>).w)

BufferVisitActive == {i \in 1..Len(stack) : stack[i].fn = "BufferVisit"}

\* C1 (capture isolation): when the traversal has ended, the text of every
\* loop initializer occurs in the output once per loop that has one.
C1_InitOnce == Done => Occurrences(out, InitText) = Count(tree, "ForWithInit")

\* C2: when BufferVisit returns, the string it hands to its caller is the
\* trimmed text written since it was entered, and that text has left the
\* buffer.
C2_CaptureReturn ==
    [][(Running /\ Top.fn = "BufferVisit" /\ AtEnd)
         => /\ stack' = Returned(TrimSpace(SubSeq(buffer, Top.mark + 1, Len(buffer))))
            /\ Len(buffer') <= Top.mark]_vars

\* C3: at most one BufferVisit is in progress, and flush is true whenever
\* BufferVisit is entered.
C3_OneCapture ==
    /\ Cardinality(BufferVisitActive) <= 1
    /\ At("BufferVisit") => flush

\* C4: BufferVisit(nil) is about to return the empty string, and
\* parseExpr(nil) is the empty string.
C4_AbsentEmpty ==
    /\ (Running /\ Top.fn = "BufferVisit" /\ AtEnd /\ IsNil(Top.node))
          => BufferVisitResult = <<>>
    /\ (At("parseExpr") /\ IsNil(Cur.n)) => parseExprLeaf(Cur.n) = <<>>

\* C5: a file holding a function declaration without a body is translated
\* without a crash.
C5_NilBody == crashed => Count(tree, "NilBody") = 0

\* the net change of p.level made by the instructions a frame has run
Executed(fr) == SumSeq([k \in 1..(fr.pc - 1) |-> fr.code[k].d])

\* C6 (indentation balance): the level is never negative; it is the number
\* of UpdateLevel(UP) calls not yet matched by the UpdateLevel(DOWN) of the
\* same activation; and a Visit that is about to return has restored the
\* level it was entered with.
C6_Balance ==
    /\ level >= 0
    /\ level = SumSeq([i \in 1..Len(stack) |-> Executed(stack[i])])
    /\ \A i \in 1..Len(stack) :
         (stack[i].fn = "Visit" /\ stack[i].pc > Len(stack[i].code))
            => /\ Executed(stack[i]) = 0
               /\ i = Len(stack) => level = stack[i].level0

C6_Witness ==
    /\ Running /\ Top.fn = "Visit" /\ AtEnd
    /\ Top.node.kind = "CaseClause" /\ Len(Top.node.Body) > 0
    /\ Top.level0 >= 2
    /\ Len(out) > 0

\* the function declarations and function literals being visited
FuncDepth ==
    Cardinality({i \in 1..Len(stack) :
                    \/ stack[i].fn = "Visit" /\ stack[i].node.kind = "FuncDecl"
                    \/ stack[i].fn = "parseExpr" /\ stack[i].node.kind = "FuncLit"})

\* C11: the depth of the context stack follows the nesting of functions: it
\* grows by one when the traversal enters a function declaration or function
\* literal and shrinks by one when it leaves.
C11_ContextDepth == [][Len(ctx') - FuncDepth' = Len(ctx) - FuncDepth]_vars

\* the placeholder comment for a node, and for an expression
Placeholder(n) == <<"/*", " ", "Node:", " ">> \o Dump(n) \o <<" ", "*/", "\n">>
ExprPlaceholder(e) == <<"/*", " ", "Expr:", " ">> \o Dump(e) \o <<" ", "*/">>

\* the innermost node being visited below the current frame
RECURSIVE EnclosingNode(_)
EnclosingNode(i) ==
    IF i = 0 THEN Nil
    ELSE IF stack[i].fn = "Visit" THEN stack[i].node
    ELSE EnclosingNode(i - 1)

OnUnhandled ==
    stack # <<>> /\ Top.fn = "Visit" /\ Top.node.kind \notin HandledKinds

\* what visiting the statement y alone writes inside a function body
SiblingText ==
    PrintLevel([level |-> 1, sameline |-> FALSE, ctx |-> <<>>, w |-> <<>>, panic |-> FALSE],
               <<"y">>, <<<<"\n">>>>).w

\* C12: Visit of a node without a case does not crash and writes the tagged
\* placeholder of the node and nothing else; when it returns, the parent is
\* again the enclosing node and the caller goes on with the next sibling, so
\* that the finished output holds one placeholder per such node, followed by
\* the text of the sibling; parseExpr of an expression without a case is the
\* tagged placeholder of the expression.
C12_Unhandled ==
    /\ [](/\ OnUnhandled
             => /\ ~crashed
                /\ AtEnd => SubSeq(buffer, Top.mark + 1, Len(buffer)) = Placeholder(Top.node)
          /\ (At("parseExpr") /\ Cur.n.kind = "BadExpr")
                => parseExprLeaf(Cur.n) = ExprPlaceholder(Cur.n)
          /\ Done => /\ Occurrences(out, Placeholder(LabeledStmt(ExprStmt(Ident("x")))))
                          = Count(tree, "Unhandled")
                     /\ tree = File("p", <<Func("f", <<LabeledStmt(ExprStmt(Ident("x"))),
                                                        ExprStmt(Ident("y"))>>)>>)
                          => Occurrences(out, Placeholder(LabeledStmt(ExprStmt(Ident("x"))))
                                              \o SiblingText) = 1)
    /\ [][(OnUnhandled /\ AtEnd)
            => /\ parent' = EnclosingNode(Len(stack) - 1)
               /\ stack' = Popped
               /\ ~crashed']_vars

C12_Witness ==
    /\ Done
    /\ Count(tree, "Unhandled") = 1
    /\ Occurrences(out, Placeholder(LabeledStmt(ExprStmt(Ident("x")))) \o SiblingText) = 1

\* the declarations and statements of a tree, a parent before its children
\* and the children in source order
RECURSIVE Preorder(_), PreorderAll(_)
Preorder(n) ==
    IF IsNil(n) THEN <<>>
    ELSE (IF n.kind \in NodeKinds THEN <<n>> ELSE <<>>) \o PreorderAll(Kids(n))
PreorderAll(list) ==
    IF list = <<>> THEN <<>> ELSE Preorder(Head(list)) \o PreorderAll(Tail(list))

IsPrefix(a, b) == Len(a) <= Len(b) /\ a = SubSeq(b, 1, Len(a))

\* C13: the nodes Visit has been entered with are, in order, the first
\* declarations and statements of the tree in pre-order, and all of them when
\* the traversal has ended.
C13_PreOrder ==
    /\ IsPrefix(visited, Preorder(tree))
    /\ Done => visited = Preorder(tree)

\* the result list of the function declaration being visited
ResultsOfFunc ==
    LET F == {i \in 1..Len(stack) : stack[i].fn = "Visit" /\ stack[i].node.kind = "FuncDecl"}
    IN  IF F = {} THEN Nil
        ELSE stack[CHOOSE i \in F : \A j \in F : j <= i].node.Type.Results

NumResults == IF IsNil(ResultsOfFunc) THEN 0 ELSE Len(ResultsOfFunc.List)

\* the text the Visit on top of the stack has written so far, trimmed
Written == TrimSpace(SubSeq(buffer, Top.mark + 1, Len(buffer)))

OnReturnStmt ==
    Running /\ Top.fn = "Visit" /\ Top.node.kind = "ReturnStmt" /\ AtEnd

\* C14: in a function with two result types, the Visit of "return x, y" has
\* written one return statement whose operand is make_tuple(x, y).
C14_MultiReturn ==
    (OnReturnStmt /\ NumResults = 2 /\ Len(Top.node.Results) = 2)
        => Written = <<"return", " ", "make_tuple(", "x", ",", " ", "y", ")", ";">>

\* the declarations of the named results a and b
ResultDecls == <<"int", " ", "a", ";", "error", " ", "b", ";">>

NamedResultsOfFunc ==
    /\ NumResults = 2
    /\ \A i \in 1..2 : Len(ResultsOfFunc.List[i].Names) > 0

\* C15: in a function with the named results a and b, the Visit of a bare
\* return has written one return statement whose operand is make_tuple(a, b);
\* and the finished translation of
\*     func f() (a int, b error) { if v := 0; c { }; return }
\* declares a and b once, at the top of the body of f.
C15_NamedResults ==
    /\ (OnReturnStmt /\ NamedResultsOfFunc /\ Len(Top.node.Results) = 0)
          => Written = <<"return", " ", "make_tuple(", "a", ",", " ", "b", ")", ";">>
    /\ (Done /\ tree = File("p", <<NamedResults>>))
          => /\ Occurrences(out, ResultDecls) = 1
             /\ Occurrences(out, <<"{", "\n", "  ">> \o ResultDecls) = 1

\* a step that takes text out of the buffer either appends all of it to the
\* output or is the return of a BufferVisit that hands it, trimmed, to its caller
TextKept ==
    \/ IsPrefix(buffer, buffer')
    \/ out' = out \o buffer
    \/ /\ Top.fn = "BufferVisit" /\ AtEnd
       /\ stack' = Returned(TrimSpace(buffer))

\* C16: text leaves the buffer only to the output or to the caller of
\* BufferVisit; the output only grows; a Visit that returns while flush is
\* true leaves the buffer empty and the parent as it was before the call; and
\* when the program has ended, no text is left in the buffer.
C16_NoTextLost ==
    /\ []((stack = <<>> \/ crashed) => buffer = <<>>)
    /\ [][/\ TextKept
          /\ IsPrefix(out, out')
          /\ (Running /\ Top.fn = "Visit" /\ AtEnd /\ flush)
                => /\ buffer' = <<>>
                   /\ out' = out \o buffer
                   /\ parent' = EnclosingNode(Len(stack) - 1)]_vars

(***************************************************************************)
(* The printer on its own: a client calls the operations of CPrinter in    *)
(* any order, reading what each call wrote to p.w before the next call.    *)
(* The walker's variables do not change.                                   *)
(***************************************************************************)
PInit ==
    /\ tree = Nil
    /\ stack = <<>>
    /\ parent = Nil
    /\ flush = TRUE
    /\ out = <<>>
    /\ visited = <<>>
    /\ buffer = <<>>
    /\ level = 0
    /\ sameline = FALSE
    /\ ctx = <<>>
    /\ crashed = FALSE
    /\ call = NoCall
    /\ result = <<>>
    /\ saved = <<>>
    /\ ndefer = <<>>
    /\ nconst = <<>>

\* the printer before a call, its writer emptied
P1 == [level |-> level, sameline |-> sameline, ctx |-> ctx, w |-> <<>>, panic |-> FALSE]

CallOf(op, x, y, b) == [op |-> op, x |-> x, y |-> y, b |-> b]

\* the state after a call that left the printer q and returned ret
Called(q, ret, c) ==
    /\ level' = q.level
    /\ sameline' = q.sameline
    /\ ctx' = q.ctx
    /\ buffer' = q.w
    /\ crashed' = q.panic
    /\ result' = ret
    /\ call' = c
    /\ UNCHANGED wvars

\* what the live contexts have counted: constants, deferred calls, named results
Counted == SumSeq([i \in 1..Len(ctx) |->
               ctx[i].iota + ctx[i].deferred + (Len(ctx[i].ret_values) \div 3)])

BumpHead(q) == IF q = <<>> THEN q ELSE [q EXCEPT ![1] = @ + 1]
ZeroHead(q) == IF q = <<>> THEN q ELSE [q EXCEPT ![1] = 0]

CallReset ==
    /\ ~crashed
    /\ Called(Reset(P1), <<>>, CallOf("Reset", <<>>, <<>>, FALSE))
    /\ saved' = <<>> /\ ndefer' = <<>> /\ nconst' = <<>>

CallPushContext ==
    /\ ~crashed /\ Len(ctx) < MaxCtx
    /\ Called(PushContext(P1), <<>>, CallOf("PushContext", <<>>, <<>>, FALSE))
    /\ saved' = <<ctx>> \o saved
    /\ ndefer' = <<0>> \o ndefer
    /\ nconst' = <<0>> \o nconst

CallPopContext ==
    /\ ~crashed
    /\ Called(PopContext(P1), <<>>, CallOf("PopContext", <<>>, <<>>, FALSE))
    /\ IF ctx = <<>> THEN UNCHANGED <<saved, ndefer, nconst>>
       ELSE saved' = Tail(saved) /\ ndefer' = Tail(ndefer) /\ nconst' = Tail(nconst)

CallPrintBlockStart ==
    /\ ~crashed /\ level < MaxLevel
    /\ \E b \in {CONST, VAR, CODE} :
         /\ Called(PrintBlockStart(P1, b), <<>>, CallOf("PrintBlockStart", <<b>>, <<>>, FALSE))
         /\ nconst' = IF b = CONST THEN ZeroHead(nconst) ELSE nconst
    /\ UNCHANGED <<saved, ndefer>>

\* the client closes only the blocks it opened
CallPrintBlockEnd ==
    /\ ~crashed /\ level > 0
    /\ \E b \in {CONST, VAR, CODE} :
         Called(PrintBlockEnd(P1, b), <<>>, CallOf("PrintBlockEnd", <<b>>, <<>>, FALSE))
    /\ UNCHANGED <<saved, ndefer, nconst>>

CallPrintValue ==
    /\ ~crashed
    /\ Counted < MaxCount
    /\ \E vtype \in {<<"const">>, <<"var">>}, values \in {<<>>, <<"7">>} :
         /\ Called(PrintValue(P1, vtype, <<>>, <<"A">>, values, FALSE, FALSE), <<>>,
                   CallOf("PrintValue", vtype, values, FALSE))
         /\ nconst' = IF vtype = <<"const">> /\ values = <<>> THEN BumpHead(nconst) ELSE nconst
    /\ UNCHANGED <<saved, ndefer>>

CallFormatIdent ==
    /\ ~crashed
    /\ Counted < MaxCount
    /\ \E id \in {NIL, IOTA, <<"string">>, <<"x">>} :
         LET r == FormatIdent(P1, id)
         IN  /\ Called(r.p, r.ret, CallOf("FormatIdent", id, <<>>, FALSE))
             /\ nconst' = IF id = IOTA THEN BumpHead(nconst) ELSE nconst
    /\ UNCHANGED <<saved, ndefer>>

CallPrintStmt ==
    /\ ~crashed
    /\ Counted < MaxCount
    /\ \E stmt \in {<<"defer">>, <<"go">>, <<"break">>, <<>>} :
         /\ Called(PrintStmt(P1, stmt, <<"f()">>), <<>>,
                   CallOf("PrintStmt", stmt, <<"f()">>, FALSE))
         /\ ndefer' = IF stmt = <<"defer">> THEN BumpHead(ndefer) ELSE ndefer
    /\ UNCHANGED <<saved, nconst>>

CallPrintReturn ==
    /\ ~crashed
    /\ \E expr \in {<<>>, <<"x", ",", " ", "y">>}, tuple \in BOOLEAN :
         Called(PrintReturn(P1, expr, tuple), <<>>, CallOf("PrintReturn", expr, <<>>, tuple))
    /\ UNCHANGED <<saved, ndefer, nconst>>

CallPrintFunc ==
    /\ ~crashed
    /\ \E receiver \in {<<>>, <<"T", "*", " ", "r">>, <<"T">>} :
         Called(PrintFunc(P1, receiver, <<"m">>, <<>>, <<>>), <<>>,
                CallOf("PrintFunc", receiver, <<"m">>, FALSE))
    /\ UNCHANGED <<saved, ndefer, nconst>>

CallFormatSelector ==
    /\ ~crashed
    /\ \E pname \in {<<"r">>, <<"x">>}, isObject \in BOOLEAN :
         Called(P1, FormatSelector(P1, pname, <<"Field">>, isObject),
                CallOf("FormatSelector", pname, <<"Field">>, isObject))
    /\ UNCHANGED <<saved, ndefer, nconst>>

ResultNames == <<"a", "b", "c", "d", "e", "f">>

\* the client names the results of a function a, b, c, ... in turn
CallFormatPair ==
    /\ ~crashed
    /\ Counted < MaxCount
    /\ \E named \in BOOLEAN, t \in {RESULT, PARAM, FIELD, METHOD} :
         LET k == IF ctx = <<>> THEN 0 ELSE Len(ctx[1].ret_values) \div 3
             name == IF named THEN <<ResultNames[k + 1]>> ELSE <<>>
             r == FormatPair(P1, name, <<"int">>, t)
         IN  Called(r.p, r.ret, CallOf("FormatPair", name, <<t>>, FALSE))
    /\ UNCHANGED <<saved, ndefer, nconst>>

PNext ==
    \/ CallReset \/ CallPushContext \/ CallPopContext
    \/ CallPrintBlockStart \/ CallPrintBlockEnd
    \/ CallPrintValue \/ CallFormatIdent \/ CallPrintStmt \/ CallPrintReturn
    \/ CallPrintFunc \/ CallFormatSelector \/ CallFormatPair

PSpec == PInit /\ [][PNext]_vars

(***************************************************************************)
(* Properties of the printer API, stated over PSpec.  The history stacks   *)
(* hold one entry per open PushContext: saved the context stack at the     *)
(* push, ndefer the deferred statements printed since, nconst the          *)
(* valueless constants consumed since the last PrintBlockStart(CONST).     *)
(***************************************************************************)
Did(op) == call.op = op /\ ~crashed

\* the value a PrintValue call rendered after "="
Rendered == IF Contains(buffer, "=") THEN SubSeq(buffer, Index(buffer, "=") + 2, Len(buffer) - 2)
            ELSE <<>>

\* C7: in a context, a valueless constant renders the number of valueless
\* constants consumed before it in its group: 0, 1, 2, ... and 0 again for the
\* first one of a following group.
C7_Iota ==
    (Did("PrintValue") /\ call.x = <<"const">> /\ call.y = <<>> /\ nconst # <<>>)
        => Rendered = <<Itoa(nconst[1] - 1)>>

\* C8: the k-th deferred statement of a context (k = 0, 1, ...) is named
\* defer<k>; a pushed context counts from 0 again and the outer contexts keep
\* their counts.
C8_DeferNames ==
    /\ (Did("PrintStmt") /\ call.x = <<"defer">>)
           => /\ ndefer # <<>>
              /\ Contains(buffer, "defer" \o Itoa(ndefer[1] - 1))
    /\ ~crashed => /\ Len(ndefer) = Len(ctx)
                   /\ \A i \in 1..Len(ctx) : ctx[i].deferred = ndefer[i]

C8_Witness ==
    /\ Did("PrintStmt") /\ call.x = <<"defer">>
    /\ Len(ctx) = 2 /\ ndefer = <<1, 1>>
    /\ Contains(buffer, "defer0")

\* C9: PrintFunc records the receiver's name in the top context; an object
\* selector on that name renders this->sel in that context, on any other name
\* x.sel, and the contexts below the top are not consulted.
C9_Receiver ==
    [][/\ (call'.op = "PrintFunc" /\ ~crashed' /\ Len(call'.x) > 0)
            => ctx'[1].receiver = <<"r">>
       /\ (call'.op = "FormatSelector" /\ call'.b)
            => result' = IF ctx # <<>> /\ ctx[1].receiver = call'.x
                         THEN <<"this->">> \o call'.y
                         ELSE call'.x \o <<".">> \o call'.y]_vars

C9_Witness ==
    /\ Did("FormatSelector") /\ call.b /\ call.x = <<"r">>
    /\ Len(ctx) = 2 /\ ctx[1].receiver = <<"r">> /\ ctx[2].receiver = <<>>
    /\ result = <<"this->", "Field">>

\* C10: PushContext puts a context with zero counters and empty receiver and
\* accumulators on top of the stack; whatever is called before the matching
\* PopContext, the PopContext leaves the stack as it was at the push.
C10_Scoping ==
    [][/\ call'.op = "PushContext"
            => /\ Head(ctx') = NewCContext
               /\ Tail(ctx') = ctx
       /\ (call'.op = "PopContext" /\ ~crashed')
            => /\ saved # <<>>
               /\ ctx' = Head(saved)
       /\ (call'.op \notin {"PushContext", "PopContext", "Reset"} /\ ctx # <<>>)
            => Tail(ctx') = Tail(ctx)]_vars

C10_Witness ==
    /\ Did("PopContext")
    /\ Len(ctx) = 1
    /\ ctx[1].deferred = 1 /\ ctx[1].iota = 1 /\ ctx[1].receiver = <<"r">>

====
